---- MODULE Spec2Model ----
(***************************************************************************)
(* Model of funcs/func_coindetect.c: the COIN_DETECT dialplan function.    *)
(*                                                                         *)
(* A channel carries a list of datastores and a list of audiohooks.  The   *)
(* first COIN_DETECT write allocates a coindetect_data (two                *)
(* detector_state, rx and tx), adds it to the channel and attaches an      *)
(* audiohook whose callback, coindetect_cb, hands every audio frame to     *)
(* coindetect_process for the frame's direction.                           *)
(*                                                                         *)
(* Floating point.  The Goertzel recursion itself is not computed here.    *)
(* A goertzel_state_t is represented by                                    *)
(*   fed : the number of samples folded into (x1, x2) since they were last *)
(*         zeroed (0 means x1 = x2 = 0),                                   *)
(*   w   : <<freq, rate>>, the arguments wr and wi were computed from      *)
(*         (<<0, 0>> is the calloc'ed all-zero state; rate 0 gives NaN),   *)
(*   n   : the block length.                                               *)
(* The magnitude goertzel_result returns for a block depends on the frame's*)
(* sample values; a frame therefore carries, for each block it completes,  *)
(* the pair of magnitudes its samples yield, in thousandths (.05 is 50).   *)
(* A division by n = 0 with zero or NaN coefficients yields NaN, which     *)
(* compares false with everything.                                         *)
(***************************************************************************)
EXTENDS Integers, Sequences, FiniteSets

VARIABLES datastores, hooks, wpc, wnew, last, readout

vars == <<datastores, hooks, wpc, wnew, last, readout>>

(***************************************************************************)
(* Program constants                                                       *)
(***************************************************************************)
COINDET_G_RATE == 60

\* COINDET_THRESH .05, in thousandths
COINDET_THRESH == 50

FREQ_A == 1700

FREQ_B == 2200

\* the quiet NaN a float division 0/0 produces; never a magnitude
NaN == -1

(***************************************************************************)
(* Bounds of the model                                                     *)
(***************************************************************************)
\* largest f->samples of a frame
MaxSamples == 2

\* coins a direction counts at most, with audio on both directions
MaxCoins == 1

\* coins a direction counts at most, with audio on one direction
MaxPulses == 2

\* longest run of equal block decisions the burst properties enumerate
MaxRun == 6

\* Longest run of samples cut into frames in more than one way.
MaxSplit == 4

\* Sample rates of the frames' formats.  The block length is proportional
\* to the rate (BlockLen), so low rates drive the same code with blocks of
\* 2 and 3 samples; 0 is the invalid rate.
Rates == {0, 300, 400}

\* The rates met with audio on both directions: one valid, and the invalid.
DuplexRates == {0, 300}

\* Rates of the telephony formats slin and slin16.
TelephonyRates == {8000, 16000}

\* Magnitudes a block can yield for one tone: at the threshold, above it.
Energies == {COINDET_THRESH, COINDET_THRESH + 1}

Directions == {"READ", "WRITE"}

Writers == {1, 2}

(***************************************************************************)
(* goertzel_state_t                                                        *)
(***************************************************************************)
goertzel_zero == [fed |-> 0, w |-> <<0, 0>>, n |-> 0]

goertzel_sample(s) == [s EXCEPT !.fed = @ + 1]

goertzel_init(s, freq, sample_rate, n) ==
    [s EXCEPT !.w = <<freq, sample_rate>>, !.fed = 0, !.n = n]

goertzel_reset(s) == [s EXCEPT !.fed = 0]

\* e is the magnitude the samples fed since the last zeroing yield.
goertzel_result(s, e) == IF s.n = 0 THEN NaN ELSE e

\* float comparison a > b
FloatGt(a, b) == a # NaN /\ b # NaN /\ a > b

\* BlockLen as COINDET_G_RATE blocks a second.
BlockLen_PerSecond(rate) == rate \div COINDET_G_RATE

\* (int)(((float)rate / 8000.0f) * COINDET_G_RATE), for rate >= 0
BlockLen(rate) == (rate * COINDET_G_RATE) \div 8000

(***************************************************************************)
(* struct detector_state, struct coindetect_data after ast_calloc and the  *)
(* assignments of coindetect_write                                         *)
(***************************************************************************)
detector_state0 ==
    [cd_current_sample |-> 0, tone_a |-> goertzel_zero, tone_b |-> goertzel_zero,
     incoin |-> 0, hits |-> 0, misses |-> 0, coins |-> 0, detector_rate |-> 0]

coindetect_data0 ==
    [en_rx |-> TRUE, en_tx |-> TRUE, rx |-> detector_state0, tx |-> detector_state0]

(***************************************************************************)
(* coindetect_process                                                      *)
(***************************************************************************)
\* Retune without the test of line 256.
Retune_Always(s, rate) ==
    [s EXCEPT !.tone_a = goertzel_init(@, FREQ_A, rate, BlockLen(rate)),
              !.tone_b = goertzel_init(@, FREQ_B, rate, BlockLen(rate)),
              !.detector_rate = rate]

\* Retune that also starts the debouncer afresh.
Retune_ClearsDebouncer(s, rate) ==
    IF rate # s.detector_rate
    THEN [s EXCEPT !.tone_a = goertzel_init(@, FREQ_A, rate, BlockLen(rate)),
                   !.tone_b = goertzel_init(@, FREQ_B, rate, BlockLen(rate)),
                   !.detector_rate = rate,
                   !.incoin = 0, !.hits = 0, !.misses = 0]
    ELSE s

\* lines 256-261: re-tune both estimators when the frame's rate is new
Retune(s, rate) ==
    IF rate # s.detector_rate
    THEN [s EXCEPT !.tone_a = goertzel_init(@, FREQ_A, rate, BlockLen(rate)),
                   !.tone_b = goertzel_init(@, FREQ_B, rate, BlockLen(rate)),
                   !.detector_rate = rate]
    ELSE s

\* Detect with `||` for `&&`.
Detect_Either(e1, e2) == FloatGt(e1, COINDET_THRESH) \/ FloatGt(e2, COINDET_THRESH)

\* line 273
Detect(e1, e2) == FloatGt(e1, COINDET_THRESH) /\ FloatGt(e2, COINDET_THRESH)

\* Debounce clearing the count where the pulse ends.
Debounce_ResetOnIdle(s, detect) ==
    IF s.incoin # 0
    THEN LET m == IF detect THEN 0 ELSE s.misses + 1
         IN IF m > 3
            THEN [s EXCEPT !.misses = m, !.incoin = 0, !.hits = 0, !.coins = 0]
            ELSE [s EXCEPT !.misses = m]
    ELSE LET h == IF detect THEN s.hits + 1 ELSE 0
         IN IF h > 3
            THEN [s EXCEPT !.hits = h, !.incoin = 1, !.misses = 0, !.coins = @ + 1]
            ELSE [s EXCEPT !.hits = h]

\* Debounce counting every detected block of a pulse.
Debounce_CountInPulse(s, detect) ==
    IF s.incoin # 0
    THEN LET m == IF detect THEN 0 ELSE s.misses + 1
         IN IF m > 3
            THEN [s EXCEPT !.misses = m, !.incoin = 0, !.hits = 0]
            ELSE [s EXCEPT !.misses = m, !.coins = IF detect THEN @ + 1 ELSE @]
    ELSE LET h == IF detect THEN s.hits + 1 ELSE 0
         IN IF h > 3
            THEN [s EXCEPT !.hits = h, !.incoin = 1, !.misses = 0, !.coins = @ + 1]
            ELSE [s EXCEPT !.hits = h]

\* Debounce with `hits > 2` for `hits > 3`.
Debounce_HitsOffByOne(s, detect) ==
    IF s.incoin # 0
    THEN LET m == IF detect THEN 0 ELSE s.misses + 1
         IN IF m > 3
            THEN [s EXCEPT !.misses = m, !.incoin = 0, !.hits = 0]
            ELSE [s EXCEPT !.misses = m]
    ELSE LET h == IF detect THEN s.hits + 1 ELSE 0
         IN IF h > 2
            THEN [s EXCEPT !.hits = h, !.incoin = 1, !.misses = 0, !.coins = @ + 1]
            ELSE [s EXCEPT !.hits = h]

\* Debounce with `misses > 4` for `misses > 3`.
Debounce_MissesOffByOne(s, detect) ==
    IF s.incoin # 0
    THEN LET m == IF detect THEN 0 ELSE s.misses + 1
         IN IF m > 4
            THEN [s EXCEPT !.misses = m, !.incoin = 0, !.hits = 0]
            ELSE [s EXCEPT !.misses = m]
    ELSE LET h == IF detect THEN s.hits + 1 ELSE 0
         IN IF h > 3
            THEN [s EXCEPT !.hits = h, !.incoin = 1, !.misses = 0, !.coins = @ + 1]
            ELSE [s EXCEPT !.hits = h]

\* Debounce counting every miss of a pulse, consecutive or not.
Debounce_MissesNotCleared(s, detect) ==
    IF s.incoin # 0
    THEN LET m == IF detect THEN s.misses ELSE s.misses + 1
         IN IF m > 3
            THEN [s EXCEPT !.misses = m, !.incoin = 0, !.hits = 0]
            ELSE [s EXCEPT !.misses = m]
    ELSE LET h == IF detect THEN s.hits + 1 ELSE 0
         IN IF h > 3
            THEN [s EXCEPT !.hits = h, !.incoin = 1, !.misses = 0, !.coins = @ + 1]
            ELSE [s EXCEPT !.hits = h]

\* Debounce keeping the hit count where the pulse ends.
Debounce_KeepHits(s, detect) ==
    IF s.incoin # 0
    THEN LET m == IF detect THEN 0 ELSE s.misses + 1
         IN IF m > 3
            THEN [s EXCEPT !.misses = m, !.incoin = 0]
            ELSE [s EXCEPT !.misses = m]
    ELSE LET h == IF detect THEN s.hits + 1 ELSE 0
         IN IF h > 3
            THEN [s EXCEPT !.hits = h, !.incoin = 1, !.misses = 0, !.coins = @ + 1]
            ELSE [s EXCEPT !.hits = h]

\* lines 275-301: the debouncer, stepped once per completed block
Debounce(s, detect) ==
    IF s.incoin # 0
    THEN LET m == IF detect THEN 0 ELSE s.misses + 1
         IN IF m > 3
            THEN [s EXCEPT !.misses = m, !.incoin = 0, !.hits = 0]
            ELSE [s EXCEPT !.misses = m]
    ELSE LET h == IF detect THEN s.hits + 1 ELSE 0
         IN IF h > 3
            THEN [s EXCEPT !.hits = h, !.incoin = 1, !.misses = 0, !.coins = @ + 1]
            ELSE [s EXCEPT !.hits = h]

\* lines 264-266: one sample goes into both estimators
FeedSample(s) ==
    [s EXCEPT !.tone_a = goertzel_sample(@), !.tone_b = goertzel_sample(@),
              !.cd_current_sample = @ + 1]

\* lines 270-304: a block completes with magnitudes e = <<e1, e2>>
CompleteBlock(s, e) ==
    LET s0 == [s EXCEPT !.cd_current_sample = 0]
        e1 == goertzel_result(s0.tone_a, e[1])
        e2 == goertzel_result(s0.tone_b, e[2])
        s1 == Debounce(s0, Detect(e1, e2))
    IN [s1 EXCEPT !.tone_a = goertzel_reset(@), !.tone_b = goertzel_reset(@)]

\* lines 262-305: the sample loop; mags[b] are the magnitudes of the b-th
\* block the frame completes
RECURSIVE SampleLoop(_, _, _, _)
SampleLoop(s, samples, mags, b) ==
    IF samples = 0 THEN s
    ELSE LET s1 == FeedSample(s)
         IN IF s1.cd_current_sample < s1.tone_a.n
            THEN SampleLoop(s1, samples - 1, mags, b)
            ELSE SampleLoop(CompleteBlock(s1, mags[b]), samples - 1, mags, b + 1)

\* the number of blocks the loop completes: how often line 267 falls through
RECURSIVE NumBlocks(_, _, _)
NumBlocks(cd, n, samples) ==
    IF samples = 0 THEN 0
    ELSE IF cd + 1 < n THEN NumBlocks(cd + 1, n, samples - 1)
         ELSE 1 + NumBlocks(0, n, samples - 1)

\* coindetect_process starting a new block with every frame.
coindetect_process_BlockPerFrame(f, s) ==
    SampleLoop([Retune(s, f.rate) EXCEPT !.cd_current_sample = 0],
               f.samples, f.mags, 1)

\* A frame: its format's sample rate, f->samples, and what its sample data
\* amounts to for each block it completes.
coindetect_process(f, s) == SampleLoop(Retune(s, f.rate), f.samples, f.mags, 1)

\* What a block of the loop can yield: with n = 0 the division gives NaN
\* whatever the samples are.
BlockEnergies(n) == IF n = 0 THEN {<<NaN, NaN>>} ELSE Energies \X Energies

\* The frames of rate r and of ks samples that detector state s can meet.
FrameSet(s, r, ks) ==
    LET t == Retune(s, r)
    IN UNION { [rate : {r}, samples : {k},
                mags : [1..NumBlocks(t.cd_current_sample, t.tone_a.n, k)
                        -> BlockEnergies(t.tone_a.n)]]
               : k \in ks }

\* Frames of up to MaxSamples samples at the rates of Rates.
FramesFor(s) == UNION { FrameSet(s, r, 0..MaxSamples) : r \in Rates }

\* Frames of up to MaxSamples samples at the rates of DuplexRates.
DuplexFrames(s) == UNION { FrameSet(s, r, 0..MaxSamples) : r \in DuplexRates }

\* Empty frames and frames of 2.5 ms of audio at the telephony rates.
TelephonyFrames(s) == UNION { FrameSet(s, r, {0, r \div 400}) : r \in TelephonyRates }

(***************************************************************************)
(* The channel: ast_channel_datastore_find returns the first datastore of  *)
(* the list, ast_channel_datastore_add inserts at its head.                *)
(***************************************************************************)
datastore_find == IF datastores = <<>> THEN <<>> ELSE <<datastores[1]>>

Init ==
    /\ datastores = <<>>
    /\ hooks = 0
    /\ wpc = [w \in Writers |-> "idle"]
    /\ wnew = [w \in Writers |-> <<>>]
    /\ last = <<>>
    /\ readout = <<>>

(***************************************************************************)
(* coindetect_cb: the manipulate callback of an attached audiohook         *)
(***************************************************************************)
\* Dispatch with the two branches exchanged.
Dispatch_Swapped(d, direction, f) ==
    IF direction = "WRITE"
    THEN [d EXCEPT !.rx = coindetect_process(f, @)]
    ELSE [d EXCEPT !.tx = coindetect_process(f, @)]

\* lines 155-160
Dispatch(d, direction, f) ==
    IF direction = "WRITE"
    THEN [d EXCEPT !.tx = coindetect_process(f, @)]
    ELSE [d EXCEPT !.rx = coindetect_process(f, @)]

Target(d, direction) == IF direction = "WRITE" THEN d.tx ELSE d.rx

coindetect_cb(direction, f) ==
    /\ hooks > 0
    /\ datastore_find # <<>>
    /\ datastores' = [datastores EXCEPT ![1] = Dispatch(@, direction, f)]
    /\ UNCHANGED <<hooks, wpc, wnew>>

\* The callback runs on a frame of `frames`; the run is followed while the
\* direction has counted at most `cap` coins.
Deliver(direction, frames, cap) ==
    \E f \in frames :
        /\ coindetect_cb(direction, f)
        /\ Target(datastores'[1], direction).coins <= cap
        /\ UNCHANGED <<last, readout>>

\* The same, with the frame and the detector state it met kept in `last`.
DeliverLogged(direction, frames, cap) ==
    \E f \in frames :
        /\ coindetect_cb(direction, f)
        /\ Target(datastores'[1], direction).coins <= cap
        /\ last' = <<[direction |-> direction, f |-> f,
                      pre |-> Target(datastores[1], direction)]>>
        /\ UNCHANGED readout

Frame(direction) ==
    /\ datastore_find # <<>>
    /\ Deliver(direction, DuplexFrames(Target(datastores[1], direction)), MaxCoins)

FrameLogged(direction) ==
    /\ datastore_find # <<>>
    /\ DeliverLogged(direction, FramesFor(Target(datastores[1], direction)), MaxPulses)

TelephonyFrame(direction) ==
    /\ datastore_find # <<>>
    /\ DeliverLogged(direction, TelephonyFrames(Target(datastores[1], direction)),
                     MaxPulses)

(***************************************************************************)
(* coindetect_write, one action per critical section                       *)
(***************************************************************************)
\* write_find going on to allocate whatever the lookup returns.
write_find_Always(w) ==
    /\ wpc[w] = "idle"
    /\ wpc' = [wpc EXCEPT ![w] = "alloc"]
    /\ UNCHANGED <<datastores, hooks, wnew, last, readout>>

\* lines 205-208 and 227-230: look the datastore up under the channel lock
write_find(w) ==
    /\ wpc[w] = "idle"
    /\ wpc' = [wpc EXCEPT ![w] = IF datastore_find = <<>> THEN "alloc" ELSE "idle"]
    /\ UNCHANGED <<datastores, hooks, wnew, last, readout>>

\* lines 209-226: allocate and initialise, outside the lock
write_alloc(w) ==
    /\ wpc[w] = "alloc"
    /\ \E ok \in BOOLEAN :
          IF ok
          THEN /\ wnew' = [wnew EXCEPT ![w] = <<coindetect_data0>>]
               /\ wpc' = [wpc EXCEPT ![w] = "add"]
          ELSE /\ wpc' = [wpc EXCEPT ![w] = "idle"]
               /\ UNCHANGED wnew
    /\ UNCHANGED <<datastores, hooks, last, readout>>

\* lines 233-236: add the new datastore under the channel lock
write_add(w) ==
    /\ wpc[w] = "add"
    /\ datastores' = wnew[w] \o datastores
    /\ wpc' = [wpc EXCEPT ![w] = "attach"]
    /\ UNCHANGED <<hooks, wnew, last, readout>>

\* line 237: attach the audiohook
write_attach(w) ==
    /\ wpc[w] = "attach"
    /\ hooks' = hooks + 1
    /\ wpc' = [wpc EXCEPT ![w] = "idle"]
    /\ wnew' = [wnew EXCEPT ![w] = <<>>]
    /\ UNCHANGED <<datastores, last, readout>>

coindetect_write(w) ==
    \/ write_find(w)
    \/ write_alloc(w)
    \/ write_add(w)
    \/ write_attach(w)

(***************************************************************************)
(* One dialplan thread writes COIN_DETECT; the channel thread runs the     *)
(* audiohook callback.                                                     *)
(***************************************************************************)
Next ==
    \/ coindetect_write(1)
    \/ \E direction \in Directions : Frame(direction)

Spec == Init /\ [][Next]_vars

(***************************************************************************)
(* coindetect_read: COIN_DETECT(tx_coins) and COIN_DETECT(rx_coins)        *)
(***************************************************************************)
ReadArgs == {"rx_coins", "tx_coins", "RX_COINS", "hits"}

\* strcasecmp(data, name) == 0
strcasecmp_eq(data, name) ==
    LET lower == [a \in ReadArgs |-> IF a = "RX_COINS" THEN "rx_coins" ELSE a]
    IN lower[data] = name

\* snprintf(buffer, buflen, "%d", v) for v >= 0 and buflen above the digits
RECURSIVE snprintf_d(_)
snprintf_d(v) ==
    LET digit == <<"0", "1", "2", "3", "4", "5", "6", "7", "8", "9">>
    IN IF v < 10 THEN <<digit[v + 1]>>
       ELSE snprintf_d(v \div 10) \o <<digit[(v % 10) + 1]>>

\* coindetect_read with the two counts exchanged.
coindetect_read_Swapped(data) ==
    /\ readout' =
          IF datastore_find = <<>> THEN <<[ret |-> -1, buffer |-> <<>>]>>
          ELSE LET coindetect == datastore_find[1]
               IN IF strcasecmp_eq(data, "tx_coins")
                  THEN <<[ret |-> 0, buffer |-> snprintf_d(coindetect.rx.coins)]>>
                  ELSE IF strcasecmp_eq(data, "rx_coins")
                  THEN <<[ret |-> 0, buffer |-> snprintf_d(coindetect.tx.coins)]>>
                  ELSE <<[ret |-> 0, buffer |-> <<>>]>>
    /\ UNCHANGED <<datastores, hooks, wpc, wnew, last>>

\* lines 164-190; readout is the return value and what was written to the
\* caller's buffer, <<>> where the buffer is left as it was passed
coindetect_read(data) ==
    /\ readout' =
          IF datastore_find = <<>> THEN <<[ret |-> -1, buffer |-> <<>>]>>
          ELSE LET coindetect == datastore_find[1]
               IN IF strcasecmp_eq(data, "tx_coins")
                  THEN <<[ret |-> 0, buffer |-> snprintf_d(coindetect.tx.coins)]>>
                  ELSE IF strcasecmp_eq(data, "rx_coins")
                  THEN <<[ret |-> 0, buffer |-> snprintf_d(coindetect.rx.coins)]>>
                  ELSE <<[ret |-> 0, buffer |-> <<>>]>>
    /\ UNCHANGED <<datastores, hooks, wpc, wnew, last>>

Read == \E data \in ReadArgs : coindetect_read(data)

(***************************************************************************)
(* The dialplan thread also reads COIN_DETECT.                             *)
(***************************************************************************)
NextRead ==
    \/ coindetect_write(1)
    \/ \E direction \in Directions : Frame(direction)
    \/ Read

SpecRead == Init /\ [][NextRead]_vars

(***************************************************************************)
(* session_set_enabled of the specification: the code declares en_rx and   *)
(* en_tx and sets them at creation, and has no operation that writes them  *)
(* afterwards.                                                             *)
(***************************************************************************)
session_set_enabled(direction, enabled) ==
    /\ datastore_find # <<>>
    /\ datastores' = [datastores EXCEPT ![1] =
                         IF direction = "WRITE" THEN [@ EXCEPT !.en_tx = enabled]
                                                ELSE [@ EXCEPT !.en_rx = enabled]]
    /\ UNCHANGED <<hooks, wpc, wnew, last, readout>>

SetEnabled == \E direction \in Directions, enabled \in BOOLEAN :
                  session_set_enabled(direction, enabled)

NextEnable ==
    \/ coindetect_write(1)
    \/ \E direction \in Directions : Frame(direction)
    \/ SetEnabled

SpecEnable == Init /\ [][NextEnable]_vars

(***************************************************************************)
(* The same with audio on the read side only, each frame logged.           *)
(***************************************************************************)
NextLogged ==
    \/ coindetect_write(1)
    \/ FrameLogged("READ")

SpecLogged == Init /\ [][NextLogged]_vars

(***************************************************************************)
(* The same at the telephony rates, in frames of 2.5 ms.                   *)
(***************************************************************************)
NextTelephony ==
    \/ coindetect_write(1)
    \/ TelephonyFrame("READ")

SpecTelephony == Init /\ [][NextTelephony]_vars

(***************************************************************************)
(* Two dialplan threads write COIN_DETECT on the same channel.             *)
(***************************************************************************)
NextRace ==
    \/ \E w \in Writers : coindetect_write(w)
    \/ Frame("READ")

SpecRace == Init /\ [][NextRace]_vars

(***************************************************************************)
(* Vocabulary of the properties                                            *)
(***************************************************************************)
Attached == datastores # <<>>

Rx == datastores[1].rx

Tx == datastores[1].tx

\* a frame has been logged; Pre met it, Post is what it left
Logged == last # <<>>

LastFrame == last[1].f

Pre == last[1].pre

Post == Target(datastores[1], last[1].direction)

Exceeds(e) == e # NaN /\ e > COINDET_THRESH

DualTone == <<COINDET_THRESH + 1, COINDET_THRESH + 1>>

Quiet == <<COINDET_THRESH, COINDET_THRESH>>

Repeat(v, k) == [i \in 1..k |-> v]

\* s after one frame per entry of decisions, each frame one block long at
\* the rate s is tuned to, with both tones above the threshold where the
\* entry is TRUE and neither where it is FALSE
RECURSIVE FeedBlocks(_, _)
FeedBlocks(s, decisions) ==
    IF decisions = <<>> THEN s
    ELSE FeedBlocks(coindetect_process(
                        [rate |-> s.detector_rate, samples |-> s.tone_a.n,
                         mags |-> <<IF Head(decisions) THEN DualTone ELSE Quiet>>], s),
                    Tail(decisions))

\* an idle debouncer with no hit pending, tuned to a rate with n > 0
FreshIdle(s) == s.incoin = 0 /\ s.hits = 0 /\ s.tone_a.n > 0

(***************************************************************************)
(* C1: the coin count of a direction never goes down: in every step, each  *)
(* datastore's rx.coins and tx.coins are at least what they were.          *)
(***************************************************************************)
C1_CoinsNonDecreasing ==
    [][\A k \in 1..Len(datastores) : \A dir \in Directions :
          Target(datastores'[Len(datastores') - Len(datastores) + k], dir).coins
              >= Target(datastores[k], dir).coins]_vars

C1_Witness == Attached /\ Rx.coins = 1 /\ Tx.coins = 1

(***************************************************************************)
(* C2: a frame that completes one block changes coins only if the block    *)
(* takes the debouncer from Idle to InPulse, and then by +1; a block met   *)
(* InPulse and a block that leaves the debouncer Idle leave coins alone.   *)
(***************************************************************************)
C2_CountOnlyOnPulseEntry ==
    (Logged /\ Len(LastFrame.mags) = 1) =>
        /\ Post.coins # Pre.coins =>
              (Pre.incoin = 0 /\ Post.incoin = 1 /\ Post.coins = Pre.coins + 1)
        /\ Pre.incoin = 1 => Post.coins = Pre.coins
        /\ Post.incoin = 0 => Post.coins = Pre.coins

C2_Witness ==
    /\ Logged /\ Len(LastFrame.mags) = 1
    /\ Pre.incoin = 0 /\ Post.incoin = 1
    /\ Pre.coins = 1 /\ Post.coins = 2

(***************************************************************************)
(* C3: from an idle debouncer with hits = 0 and coins = c, four detected   *)
(* blocks in a row give c + 1 coins, three give c, and three followed by   *)
(* an undetected block give c coins and hits = 0.                          *)
(***************************************************************************)
C3_DebounceFour ==
    (Attached /\ FreshIdle(Rx)) =>
        /\ FeedBlocks(Rx, Repeat(TRUE, 4)).coins = Rx.coins + 1
        /\ FeedBlocks(Rx, Repeat(TRUE, 3)).coins = Rx.coins
        /\ FeedBlocks(Rx, Repeat(TRUE, 3) \o <<FALSE>>).coins = Rx.coins
        /\ FeedBlocks(Rx, Repeat(TRUE, 3) \o <<FALSE>>).hits = 0

C3_Witness ==
    /\ Logged /\ Len(LastFrame.mags) = 1
    /\ Pre.incoin = 0 /\ Pre.hits = 3 /\ Pre.coins = 0
    /\ Post.hits = 4 /\ Post.coins = 1

(***************************************************************************)
(* C4: from an idle debouncer with hits = 0, k >= 4 detected blocks in a   *)
(* row followed by m >= 4 undetected ones add exactly one coin, whatever k *)
(* and m are, and leave the debouncer Idle.                                *)
(***************************************************************************)
C4_OneBurstOneCoin ==
    (Attached /\ FreshIdle(Rx)) =>
        \A k \in 4..MaxRun : \A m \in 4..MaxRun :
            LET t == FeedBlocks(Rx, Repeat(TRUE, k) \o Repeat(FALSE, m))
            IN t.coins = Rx.coins + 1 /\ t.incoin = 0

C4_Witness ==
    /\ Logged /\ Len(LastFrame.mags) = 1
    /\ Pre.incoin = 1 /\ Pre.misses = 3
    /\ Post.incoin = 0 /\ Post.hits = 0 /\ Post.coins = 1

(***************************************************************************)
(* C5: a block is detected only if both magnitudes exceed the threshold;   *)
(* a frame whose blocks each have at most one magnitude above it leaves    *)
(* coins alone, leaves an idle debouncer idle and, when it completes a     *)
(* block, ends with hits = 0 if the debouncer is idle.                     *)
(***************************************************************************)
OneToneAtMost(e) == ~(Exceeds(e[1]) /\ Exceeds(e[2]))

C5_BothTonesNeeded ==
    Logged =>
        /\ \A b \in DOMAIN LastFrame.mags :
              Detect(LastFrame.mags[b][1], LastFrame.mags[b][2])
                  => (Exceeds(LastFrame.mags[b][1]) /\ Exceeds(LastFrame.mags[b][2]))
        /\ (\A b \in DOMAIN LastFrame.mags : OneToneAtMost(LastFrame.mags[b])) =>
              /\ Post.coins = Pre.coins
              /\ Pre.incoin = 0 => Post.incoin = 0
              /\ (Pre.incoin = 0 /\ Pre.hits = 0) => Post.hits = 0
              /\ (Post.incoin = 0 /\ Len(LastFrame.mags) > 0) => Post.hits = 0

C5_Witness ==
    /\ Logged /\ Len(LastFrame.mags) = 1
    /\ LastFrame.mags[1] = <<COINDET_THRESH + 1, COINDET_THRESH>>
    /\ Pre.incoin = 0 /\ Pre.hits = 3
    /\ Post.hits = 0 /\ Post.coins = Pre.coins

(***************************************************************************)
(* C6: a frame of direction WRITE leaves rx as it was and a frame of any   *)
(* other direction leaves tx as it was.                                    *)
(***************************************************************************)
C6_DirectionsIndependent ==
    [][/\ Frame("WRITE") => UNCHANGED Rx
       /\ Frame("READ") => UNCHANGED Tx]_vars

C6_Witness == Attached /\ Rx.coins = 1 /\ Rx.incoin = 1 /\ Tx = detector_state0

(***************************************************************************)
(* C7: while a direction's enable flag is false, a frame of that direction *)
(* changes nothing of the session.                                         *)
(***************************************************************************)
Enabled(d, direction) == IF direction = "WRITE" THEN d.en_tx ELSE d.en_rx

C7_DisabledDirectionIgnored ==
    [][\A direction \in Directions :
          (Frame(direction) /\ ~Enabled(datastores[1], direction))
              => UNCHANGED datastores]_vars

(***************************************************************************)
(* C8: a frame whose sample rate is <= 0 leaves the direction's detector   *)
(* state exactly as it was.                                                *)
(***************************************************************************)
C8_InvalidRateRejected == (Logged /\ LastFrame.rate <= 0) => Post = Pre

(***************************************************************************)
(* C9, as claimed: a frame of zero samples leaves the whole detector state *)
(* as it was, whatever its sample rate.                                    *)
(***************************************************************************)
C9_ZeroSamplesNoOp == (Logged /\ LastFrame.samples = 0) => Post = Pre

(***************************************************************************)
(* C9, amended: a frame of zero samples leaves the sample index, incoin,   *)
(* hits, misses and coins as they were, and the whole detector state when  *)
(* its rate is the stored detector_rate; a different rate re-tunes.        *)
(***************************************************************************)
C9_ZeroSamplesKeepCounts ==
    (Logged /\ LastFrame.samples = 0) =>
        /\ LastFrame.rate = Pre.detector_rate => Post = Pre
        /\ Post.cd_current_sample = Pre.cd_current_sample
        /\ Post.incoin = Pre.incoin
        /\ Post.hits = Pre.hits
        /\ Post.misses = Pre.misses
        /\ Post.coins = Pre.coins

C9_Witness ==
    /\ Logged /\ LastFrame.samples = 0
    /\ LastFrame.rate # Pre.detector_rate
    /\ Pre.incoin = 1 /\ Pre.cd_current_sample > 0 /\ Pre.tone_a.fed > 0
    /\ Post.tone_a.fed = 0 /\ Post.cd_current_sample = Pre.cd_current_sample

(***************************************************************************)
(* C10, as claimed: after a frame whose rate R is not the stored           *)
(* detector_rate, both block lengths are round(R / 60).                    *)
(***************************************************************************)
ClaimedBlockLen(R) == (2 * R + COINDET_G_RATE) \div (2 * COINDET_G_RATE)

RateChanged == Logged /\ LastFrame.rate # Pre.detector_rate

(***************************************************************************)
(* C11: a frame whose rate differs from detector_rate re-initialises both  *)
(* estimators and sets cd_current_sample to 0 before any of its samples is *)
(* fed, whatever the index was: after such a frame with no samples the     *)
(* estimators are empty and tuned to the new rate, and the index is 0.     *)
(***************************************************************************)
C11_RetuneResetsIndex ==
    (RateChanged /\ LastFrame.samples = 0) =>
        /\ Post.detector_rate = LastFrame.rate
        /\ Post.tone_a.fed = 0 /\ Post.tone_b.fed = 0
        /\ Post.tone_a.n = BlockLen(LastFrame.rate)
        /\ Post.tone_b.n = BlockLen(LastFrame.rate)
        /\ Post.cd_current_sample = 0

(***************************************************************************)
(* C12: at every frame boundary of a detector tuned to a positive rate,    *)
(* 0 <= cd_current_sample < n, n being the block length of that rate,      *)
(* whatever rate changes came before.                                      *)
(***************************************************************************)
C12_IndexBelowBlockLen ==
    (Attached /\ Rx.detector_rate > 0) =>
        /\ 0 <= Rx.cd_current_sample
        /\ Rx.cd_current_sample < Rx.tone_a.n

(***************************************************************************)
(* C13: a rate change by itself detects nothing: a frame that changes the  *)
(* rate and completes no block leaves incoin, hits, misses and coins as    *)
(* they were, and so does every frame that completes no block.             *)
(***************************************************************************)
C13_RetuneKeepsDebouncer ==
    (Logged /\ Len(LastFrame.mags) = 0) =>
        /\ Post.incoin = Pre.incoin
        /\ Post.hits = Pre.hits
        /\ Post.misses = Pre.misses
        /\ Post.coins = Pre.coins

C13_Witness ==
    /\ RateChanged /\ Pre.detector_rate > 0 /\ LastFrame.rate > 0
    /\ LastFrame.samples > 0 /\ Len(LastFrame.mags) = 0
    /\ Pre.incoin = 0 /\ Pre.hits = 3 /\ Post.hits = 3
    /\ Pre.coins = 1 /\ Post.coins = 1


(***************************************************************************)
(* C16: in a pulse, up to 3 undetected blocks in a row followed by a       *)
(* detected one keep the pulse and the coin count; the pulse ends only     *)
(* with the 4th undetected block in a row; every detected block of a pulse *)
(* puts misses back to 0.                                                  *)
(***************************************************************************)
C16_DropoutTolerated ==
    (Attached /\ Rx.incoin = 1 /\ Rx.tone_a.n > 0) =>
        /\ LET u == FeedBlocks(Rx, <<TRUE>>)
           IN u.incoin = 1 /\ u.misses = 0 /\ u.coins = Rx.coins
        /\ Rx.misses = 0 =>
              /\ \A j \in 1..3 :
                    LET t == FeedBlocks(Rx, Repeat(FALSE, j))
                        u == FeedBlocks(t, <<TRUE>>)
                    IN /\ t.incoin = 1 /\ t.misses = j /\ t.coins = Rx.coins
                       /\ u.incoin = 1 /\ u.misses = 0 /\ u.coins = Rx.coins
              /\ FeedBlocks(Rx, Repeat(FALSE, 4)).incoin = 0
              /\ FeedBlocks(Rx, Repeat(FALSE, 3) \o <<TRUE>> \o Repeat(FALSE, 3)).incoin = 1

C16_Witness ==
    /\ Logged /\ Len(LastFrame.mags) = 1
    /\ Pre.incoin = 1 /\ Pre.misses = 3
    /\ Post.incoin = 1 /\ Post.misses = 0 /\ Post.coins = Pre.coins

(***************************************************************************)
(* C17: every block decision is computed over exactly n samples, all fed   *)
(* since the estimators were last emptied: when the next sample completes  *)
(* a block, each estimator then holds n samples, also for the first block  *)
(* after a rate change.                                                    *)
(***************************************************************************)
C17_BlockSpansN ==
    (Attached /\ Rx.tone_a.n > 0) =>
        LET s1 == FeedSample(Rx)
        IN ~(s1.cd_current_sample < s1.tone_a.n) =>
              /\ s1.tone_a.fed = s1.tone_a.n
              /\ s1.tone_b.fed = s1.tone_b.n

\* the detector after one frame of k samples at the rate it is tuned to
SameRateFrame(s, k, mags) ==
    coindetect_process([rate |-> s.detector_rate, samples |-> k, mags |-> mags], s)

\* the same k samples in a frame of j and a frame of k - j
TwoFrames(s, j, k, mags) ==
    LET b == NumBlocks(s.cd_current_sample, s.tone_a.n, j)
    IN SameRateFrame(SameRateFrame(s, j, SubSeq(mags, 1, b)),
                     k - j, SubSeq(mags, b + 1, Len(mags)))

\* the same k samples one to a frame
RECURSIVE SampleFrames(_, _, _)
SampleFrames(s, k, mags) ==
    IF k = 0 THEN s
    ELSE LET b == NumBlocks(s.cd_current_sample, s.tone_a.n, 1)
         IN SampleFrames(SameRateFrame(s, 1, SubSeq(mags, 1, b)),
                         k - 1, SubSeq(mags, b + 1, Len(mags)))

(***************************************************************************)
(* C18: at a constant positive rate the detector does not depend on how    *)
(* the samples are cut into frames: k samples in one frame, in two frames  *)
(* cut anywhere, and one to a frame end in the same state; the index       *)
(* carries over, and the debouncer is stepped once per n samples.          *)
(***************************************************************************)
C18_FramingIndependent ==
    (Attached /\ Rx.detector_rate > 0 /\ Rx.tone_a.n > 0) =>
        \A k \in 0..MaxSplit :
            LET n == Rx.tone_a.n
                cd == Rx.cd_current_sample
                blocks == NumBlocks(cd, n, k)
            IN /\ cd < n => blocks = (cd + k) \div n
               /\ \A mags \in [1..blocks -> {DualTone, Quiet}] :
                     LET whole == SameRateFrame(Rx, k, mags)
                     IN /\ \A j \in 0..k : TwoFrames(Rx, j, k, mags) = whole
                        /\ SampleFrames(Rx, k, mags) = whole
                        /\ cd < n => whole.cd_current_sample = (cd + k) % n
                        /\ (FreshIdle(Rx) /\ blocks <= 3
                              /\ mags = Repeat(DualTone, blocks)) =>
                                 whole.hits = blocks

C18_Witness ==
    /\ Logged /\ ~RateChanged /\ LastFrame.rate > 0
    /\ Pre.cd_current_sample > 0 /\ Len(LastFrame.mags) = 1
    /\ Post.coins = Pre.coins + 1


\* the decimal number a buffer of digits reads as
RECURSIVE DecimalValue(_)
DecimalValue(buffer) ==
    IF buffer = <<>> THEN 0
    ELSE 10 * DecimalValue(SubSeq(buffer, 1, Len(buffer) - 1))
         + (CHOOSE v \in 0..9 : snprintf_d(v) = <<buffer[Len(buffer)]>>)

(***************************************************************************)
(* C14: a read of rx_coins or tx_coins is a pure read: it returns the      *)
(* coins of the direction it names (rx counts the frames not in the WRITE  *)
(* direction, tx those in it) and leaves every field of the session, the   *)
(* datastore list and the audiohooks as they were.                         *)
(***************************************************************************)
C14_ReadIsPure ==
    [][\A data \in {"rx_coins", "tx_coins"} :
          (Attached /\ coindetect_read(data)) =>
              /\ UNCHANGED <<datastores, hooks>>
              /\ readout'[1].ret = 0
              /\ readout'[1].buffer # <<>>
              /\ DecimalValue(readout'[1].buffer) =
                    Target(datastores[1],
                           IF data = "tx_coins" THEN "WRITE" ELSE "READ").coins]_vars

C14_Witness ==
    /\ Attached /\ Rx.coins = 1 /\ Tx.coins = 0
    /\ readout = <<[ret |-> 0, buffer |-> <<"1">>]>>

\* the state of the PulseDebouncer of the specification's section 4.3
PulseDebouncerStates ==
    [in_pulse : BOOLEAN, hit_streak : 0..4, miss_streak : 0..4,
     pulse_count : 0..(MaxPulses + 1)]

\* one row of the table of section 4.3
PulseDebouncer(t, detected) ==
    IF ~t.in_pulse
    THEN IF detected
         THEN IF t.hit_streak + 1 > 3
              THEN [t EXCEPT !.hit_streak = @ + 1, !.miss_streak = 0,
                             !.in_pulse = TRUE, !.pulse_count = @ + 1]
              ELSE [t EXCEPT !.hit_streak = @ + 1, !.miss_streak = 0]
         ELSE [t EXCEPT !.hit_streak = 0]
    ELSE IF detected
         THEN [t EXCEPT !.miss_streak = 0]
         ELSE IF t.miss_streak + 1 > 3
              THEN [t EXCEPT !.miss_streak = @ + 1, !.in_pulse = FALSE,
                             !.hit_streak = 0]
              ELSE [t EXCEPT !.miss_streak = @ + 1]

\* the four fields of the code's debouncer, in the table's names
DebouncerOf(s) ==
    [in_pulse |-> s.incoin # 0, hit_streak |-> s.hits,
     miss_streak |-> s.misses, pulse_count |-> s.coins]

\* t and the code's debouncer agree, but for miss_streak outside a pulse
AgreesButIdleMisses(s, t) ==
    /\ t.in_pulse = (s.incoin # 0)
    /\ t.hit_streak = s.hits
    /\ t.pulse_count = s.coins
    /\ t.in_pulse => t.miss_streak = s.misses

(***************************************************************************)
(* C15: the debouncer is the table of section 4.3: run side by side from   *)
(* the initial state on the same detected values, incoin, hits, misses and *)
(* coins equal in_pulse, hit_streak, miss_streak and pulse_count after     *)
(* every block; so a block takes equal states to equal states.             *)
(***************************************************************************)
C15_DebouncerIsTable ==
    (Attached /\ Rx.tone_a.n > 0) =>
        \A detected \in BOOLEAN :
            DebouncerOf(FeedBlocks(Rx, <<detected>>))
                = PulseDebouncer(DebouncerOf(Rx), detected)

(***************************************************************************)
(* C15, amended: side by side, incoin, hits and coins equal in_pulse,      *)
(* hit_streak and pulse_count after every block, and misses equals         *)
(* miss_streak in every pulse: a block takes states that agree so to       *)
(* states that agree so, from the initial states, which agree.             *)
(***************************************************************************)
C15_DebouncerIsTableButIdleMisses ==
    /\ AgreesButIdleMisses(detector_state0, DebouncerOf(detector_state0))
    /\ (Attached /\ Rx.tone_a.n > 0) =>
          \A t \in PulseDebouncerStates :
              AgreesButIdleMisses(Rx, t) =>
                  \A detected \in BOOLEAN :
                      AgreesButIdleMisses(FeedBlocks(Rx, <<detected>>),
                                          PulseDebouncer(t, detected))

C15_Witness ==
    /\ Logged /\ Len(LastFrame.mags) = 1
    /\ Pre.incoin = 0 /\ Pre.misses = 4 /\ Pre.hits = 0
    /\ Post.incoin = 0 /\ Post.hits = 1 /\ Post.misses = 4
    /\ PulseDebouncer(DebouncerOf(Pre), TRUE).miss_streak = 0


\* a detector as coindetect_write leaves it
Untouched(s) ==
    /\ s.coins = 0 /\ s.incoin = 0 /\ s.hits = 0 /\ s.misses = 0
    /\ s.detector_rate = 0 /\ s.cd_current_sample = 0

(***************************************************************************)
(* C19: session creation is idempotent: the first write adds one session   *)
(* with both directions enabled, coins 0, Idle and detector_rate 0, and    *)
(* attaches one audiohook; a later write, after any frames, finds the      *)
(* session, changes nothing of it and attaches nothing; there is never     *)
(* more than one session or audiohook.                                     *)
(***************************************************************************)
C19_CreateOnce ==
    [][/\ (Attached /\ write_find(1)) =>
              (wpc'[1] = "idle" /\ UNCHANGED <<datastores, hooks>>)
       /\ write_add(1) =>
              /\ datastores = <<>> /\ Len(datastores') = 1
              /\ datastores'[1].en_rx /\ datastores'[1].en_tx
              /\ Untouched(datastores'[1].rx) /\ Untouched(datastores'[1].tx)
       /\ write_attach(1) => (hooks = 0 /\ hooks' = 1)
       /\ Len(datastores') <= 1 /\ hooks' <= 1]_vars

C19_Witness ==
    /\ Len(datastores) = 1 /\ hooks = 1 /\ wpc[1] = "idle"
    /\ Rx.incoin = 1 /\ Rx.coins = 1 /\ Tx.detector_rate = 300

(***************************************************************************)
(* C20: however two or more concurrent COIN_DETECT writes on one channel   *)
(* interleave, the channel ends up with at most one coindetect datastore   *)
(* and at most one audiohook.                                              *)
(***************************************************************************)
C20_OneSessionUnderRace == Len(datastores) <= 1 /\ hooks <= 1

====
